---- MODULE Spec2Model ----
(***************************************************************************)
(* Model of cloud_unzip (src/cloud_unzip/core.py): RemoteZipExtractor      *)
(* (constructor, list_files, extract_file, extract_files_parallel) and the *)
(* standalone extract_file_from_remote_zip.                                *)
(*                                                                         *)
(* The remote archive is a sequence of central-directory records, each     *)
(* with its local header and payload.  Paths are sequences of components.  *)
(* Lengths are counted in blocks of 5 MiB, so that the 10 MiB chunk of the *)
(* copy loops is 2 blocks.  Python's zipfile, getpass and the local file   *)
(* system are modelled at the calls the source makes to them.              *)
(***************************************************************************)
EXTENDS Integers, Sequences, FiniteSets, TLC

\* ------------------------------------------------------------------ bounds
MaxEntries == 2
MaxBatch == 2
MaxLen == 5
MaxPrompts == 2
RecursionLimit == 3

\* --------------------------------------------------------------- constants
\* chunk_size = 10 * 1024 * 1024, in blocks of 5 MiB
chunk_size == 2

None == ""
ArchivePassword == "good"
PromptInputs == {None, "good", "bad"}
output_dir == <<"out">>
Names == {<<"a", "x">>, <<"b", "x">>}
MissingName == <<"zz">>
Blocks == {1, 2}
Hole == 0

\* ------------------------------------------------------------------ helpers
Min(a, b) == IF a < b THEN a ELSE b

SeqsUpTo(S, n) == UNION {[1..k -> S] : k \in 0..n}

\* os.path.basename / os.path.dirname / os.path.join on component sequences
BaseName(p) == IF p = <<>> THEN <<>> ELSE <<p[Len(p)]>>

DirName(p) == IF p = <<>> THEN <<>> ELSE SubSeq(p, 1, Len(p) - 1)

Join(d, p) == d \o p

\* all the directories os.makedirs(d, exist_ok=True) has to find or create
Prefixes(d) == {SubSeq(d, 1, k) : k \in 1..Len(d)}

\* ------------------------------------------------- compression (zipfile/zlib)
\* Method 0 stores the bytes; method 8 is modelled as a run-length code
\* <<count, block, count, block, ...>>; any other method has no decoder.
RECURSIVE RunLen(_, _)
RunLen(s, b) == IF s # <<>> /\ Head(s) = b THEN 1 + RunLen(Tail(s), b) ELSE 0

RECURSIVE Deflate(_)
Deflate(s) ==
  IF s = <<>> THEN <<>>
  ELSE LET n == RunLen(s, Head(s))
       IN  <<n, Head(s)>> \o Deflate(SubSeq(s, n + 1, Len(s)))

RECURSIVE Inflate(_)
Inflate(d) ==
  IF Len(d) < 2 THEN <<>>
  ELSE [i \in 1..d[1] |-> d[2]] \o Inflate(SubSeq(d, 3, Len(d)))

Compress(method, s) == IF method = 8 THEN Deflate(s) ELSE s

Decompress(method, d) == IF method = 8 THEN Inflate(d) ELSE d

\* -------------------------------------------------------- the remote archive
\* One member: central-directory record (name, method, flag bit 0, file_size),
\* local header (hdrOk: signature 0x04034b50 present) and payload.
Entry(name, method, hdrOk, enc, plain) ==
  [name |-> name, method |-> method, hdrOk |-> hdrOk, enc |-> enc,
   file_size |-> Len(plain), data |-> Compress(method, plain), plain |-> plain]

EntriesOf(names, methods, hdrs, encs, plains) ==
  {Entry(n, m, h, e, p) : n \in names, m \in methods, h \in hdrs, e \in encs, p \in plains}

\* An archive: cdOk says the EOCD record and the central directory parse.
ArchivesOf(entries, n) == [cdOk : BOOLEAN, entries : SeqsUpTo(entries, n)]

\* --------------------------------------------------------------------- state
VARIABLES
  archive,       \* the remote resource at self.url (never written)
  userInput,     \* what the user will still type at getpass prompts
  password,      \* self.password
  zipfile,       \* self.zipfile: [set, filelist]
  mainpc,        \* position of the calling thread
  openErr,       \* exception the constructor raised, if any
  listed,        \* last value returned by list_files
  call,          \* arguments of the running extract_files_parallel call
  jobs,          \* extraction jobs: one per submitted future or direct call
  output_paths,  \* extract_files_parallel's result list
  collected,     \* futures already yielded by as_completed
  dirs,          \* local directories created
  files          \* local files: path -> bytes

vars == <<archive, userInput, password, zipfile, mainpc, openErr, listed, call,
          jobs, output_paths, collected, dirs, files>>

\* ------------------------------------------------------ zipfile.ZipFile model
\* ZipFile.namelist(): one name per central-directory record, in order
namelist(fl) == [i \in 1..Len(fl) |-> fl[i].name]

HasName(fl, name) == \E i \in 1..Len(fl) : fl[i].name = name

\* ZipFile.getinfo(name): NameToInfo[name], where a later record replaced an
\* earlier one of the same name
getinfo(fl, name) ==
  fl[CHOOSE i \in 1..Len(fl) :
       /\ fl[i].name = name
       /\ \A k \in (i + 1)..Len(fl) : fl[k].name # name]

\* ZipFile.open(name, pwd): outcome of opening one member for reading
ZipOpen(e, pwd) ==
  IF ~e.hdrOk THEN "BadZipFile"
  ELSE IF e.enc /\ pwd = None THEN "PasswordRequired"
  ELSE IF e.method \notin {0, 8} THEN "NotImplementedError"
  ELSE IF e.enc /\ pwd # ArchivePassword THEN "BadPassword"
  ELSE "ok"

\* the outcomes that are instances of RuntimeError
IsRuntimeError(o) ==
  o \in {"PasswordRequired", "BadPassword", "NotImplementedError", "RecursionError"}

\* "password required" in str(e).lower() or "bad password" in str(e).lower()
AsksPassword(o) == o \in {"PasswordRequired", "BadPassword"}

\* "encrypted" in str(e).lower() or "password required" in str(e).lower()
SaysEncrypted(o) == o = "PasswordRequired"

\* ZipExtFile.read(n) at offset pos of the decoded stream, which ends after
\* file_size bytes
Read(e, pos, n) ==
  LET stream == Decompress(e.method, e.data)
      last   == Min(Min(pos + n, e.file_size), Len(stream))
  IN  SubSeq(stream, pos + 1, last)

\* ZipExtFile.read(): the whole member
ReadAll(e) == Read(e, 0, e.file_size)

\* ------------------------------------------------------------- get_password
Res(st, pw, inp) == [st |-> st, pw |-> pw, inp |-> inp]

get_password(provided, inp) ==
  IF provided # None THEN Res("ok", provided, inp)
  ELSE IF inp = <<>> THEN Res("EOFError", None, inp)
  ELSE Res("ok", Head(inp), Tail(inp))

\* --------------------------------------------------------------- constructor
RECURSIVE reopen_with_password(_, _, _)
reopen_with_password(a, pw, inp) ==
  LET g == IF pw = None THEN get_password(None, inp) ELSE Res("ok", pw, inp)
  IN  IF g.st # "ok" THEN Res(g.st, pw, g.inp)
      ELSE IF ~a.cdOk THEN Res("BadZipFile", g.pw, g.inp)
      ELSE IF a.entries = <<>> THEN Res("IndexError", g.pw, g.inp)
      ELSE LET o == ZipOpen(getinfo(a.entries, a.entries[1].name), g.pw)
           IN  IF o = "BadPassword"
               THEN LET g2 == get_password(None, g.inp)
                    IN  IF g2.st # "ok" THEN Res(g2.st, g.pw, g2.inp)
                        ELSE reopen_with_password(a, g2.pw, g2.inp)
               ELSE Res(o, g.pw, g.inp)

check_if_encrypted(a, pw, inp) ==
  IF a.entries = <<>> THEN Res("IndexError", pw, inp)
  ELSE LET o == ZipOpen(getinfo(a.entries, a.entries[1].name), None)
       IN  IF IsRuntimeError(o)
           THEN IF SaysEncrypted(o)
                THEN reopen_with_password(a, pw, inp)
                ELSE Res("ok", pw, inp)
           ELSE Res(o, pw, inp)

load_zipfile(a, pw, inp, netOk) ==
  IF ~netOk THEN Res("TransportError", pw, inp)
  ELSE IF ~a.cdOk THEN Res("BadZipFile", pw, inp)
  ELSE LET c == check_if_encrypted(a, pw, inp)
       IN  IF c.st \in {"BadZipFile"} \/ IsRuntimeError(c.st)
           THEN IF SaysEncrypted(c.st)
                THEN reopen_with_password(a, c.pw, c.inp)
                ELSE c
           ELSE c

NoZip == [set |-> FALSE, filelist |-> <<>>]

\* RemoteZipExtractor(url, password)
Construct ==
  /\ mainpc = "new"
  /\ \E netOk \in BOOLEAN :
       LET r == load_zipfile(archive, password, userInput, netOk)
       IN  /\ password' = r.pw
           /\ userInput' = r.inp
           /\ IF r.st = "ok"
              THEN /\ zipfile' = [set |-> TRUE, filelist |-> archive.entries]
                   /\ mainpc' = "ready"
                   /\ openErr' = "none"
              ELSE /\ zipfile' = NoZip
                   /\ mainpc' = "failed"
                   /\ openErr' = r.st
  /\ UNCHANGED <<archive, listed, call, jobs, output_paths, collected, dirs, files>>

\* list_files()
list_files == namelist(zipfile.filelist)

ListFiles ==
  /\ mainpc = "ready"
  /\ listed' = list_files
  /\ UNCHANGED <<archive, userInput, password, zipfile, mainpc, openErr, call,
                 jobs, output_paths, collected, dirs, files>>

\* ------------------------------------------------------------ local files
\* os.makedirs(d, exist_ok=True): fails when a component is a regular file
MakedirsOk(d) == \A q \in Prefixes(d) : q \notin DOMAIN files

\* open(path, 'wb'): creates or truncates the file
Truncate(path) == [q \in DOMAIN files \cup {path} |-> IF q = path THEN <<>> ELSE files[q]]

\* write(chunk) through a handle whose offset is pos
WriteAt(content, pos, chunk) ==
  LET n == IF Len(content) > pos + Len(chunk) THEN Len(content) ELSE pos + Len(chunk)
  IN  [i \in 1..n |-> IF i > pos /\ i <= pos + Len(chunk) THEN chunk[i - pos]
                      ELSE IF i <= Len(content) THEN content[i]
                      ELSE Hole]

\* ------------------------------------------------------------------- jobs
\* kind: "wrapper" (extract_file_wrapper in the pool), "method" (extract_file
\* called directly), "standalone" and "stdout" (extract_file_from_remote_zip
\* without and with to_stdout).
NewJob(kind, filename, has_path, output_path, flatten, pwd, pc) ==
  [kind |-> kind, filename |-> filename, has_path |-> has_path,
   output_path |-> output_path, flatten |-> flatten, pwd |-> pwd, pc |-> pc,
   err |-> "none", depth |-> 0, attempts |-> 0, bytes_read |-> 0,
   opened |-> FALSE, handle |-> FALSE, progress |-> 0, result |-> <<>>]

Running(j) == jobs[j].pc \notin {"queued", "done", "failed"}

Finished(j) == jobs[j].pc \in {"done", "failed"}

Fail(job, e) == [job EXCEPT !.pc = "failed", !.err = e, !.handle = FALSE]

\* the password a job decodes with: self.password, or the function's argument
JobPwd(job) == IF job.kind \in {"wrapper", "method"} THEN password ELSE job.pwd

\* output_path defaulting (lines 151-155 and 245-249)
DefaultPath(job) ==
  IF job.has_path THEN job.output_path
  ELSE IF job.flatten THEN BaseName(job.filename)
  ELSE job.filename

\* "if not flatten or os.path.dirname(output_path)"
NeedsMakedirs(flatten, path) == ~flatten \/ DirName(path) # <<>>

\* extract_file_wrapper's destination (lines 203-206)
WrapperPath(filename, flatten) ==
  IF flatten THEN Join(output_dir, BaseName(filename))
  ELSE Join(output_dir, filename)

\* "if not flatten or os.path.dirname(os.path.relpath(output_path, output_dir))"
WrapperNeedsMakedirs(filename, flatten) ==
  ~flatten \/ DirName(SubSeq(WrapperPath(filename, flatten), Len(output_dir) + 1,
                             Len(WrapperPath(filename, flatten)))) # <<>>

\* variant: the loop stops at the first chunk shorter than chunk_size
LoopBreakShort(chunk) == Len(chunk) < chunk_size

\* variant: the loop stops only after a chunk was copied
LoopBreakNever(chunk) == FALSE

\* "if not chunk: break"
LoopBreak(chunk) == chunk = <<>>

\* min(100, int(bytes_read * 100 / total_size))
Progress(bytes_read, total_size) ==
  IF total_size = 0 THEN -1
  ELSE Min(100, (bytes_read * 100) \div total_size)

\* a worker thread takes the next queued future and runs lines 203-212
WrapperBegin(j) ==
  /\ mainpc = "par_running"
  /\ jobs[j].pc = "queued"
  /\ \A i \in 1..(j - 1) : jobs[i].pc # "queued"
  /\ Cardinality({i \in DOMAIN jobs : Running(i)}) < call.max_workers
  /\ LET path == WrapperPath(jobs[j].filename, call.flatten)
         job  == [jobs[j] EXCEPT !.output_path = path, !.has_path = TRUE,
                                 !.flatten = FALSE]
     IN  IF WrapperNeedsMakedirs(jobs[j].filename, call.flatten)
         THEN IF MakedirsOk(DirName(path))
              THEN /\ dirs' = dirs \cup Prefixes(DirName(path))
                   /\ jobs' = [jobs EXCEPT ![j] = [job EXCEPT !.pc = "mkdir"]]
              ELSE /\ dirs' = dirs
                   /\ jobs' = [jobs EXCEPT ![j] = Fail(job, "OSError")]
         ELSE /\ dirs' = dirs
              /\ jobs' = [jobs EXCEPT ![j] = [job EXCEPT !.pc = "mkdir"]]
  /\ UNCHANGED <<archive, userInput, password, zipfile, mainpc, openErr, listed,
                 call, output_paths, collected, files>>

\* lines 151-159 of extract_file; lines 245-256 of extract_file_from_remote_zip
Mkdir(j) ==
  /\ jobs[j].pc = "mkdir"
  /\ LET path == DefaultPath(jobs[j])
         job  == [jobs[j] EXCEPT !.output_path = path, !.has_path = TRUE]
         next == IF job.kind = "standalone"
                 THEN IF HasName(archive.entries, job.filename)
                      THEN [job EXCEPT !.pc = "open"]
                      ELSE Fail(job, "KeyError")
                 ELSE [job EXCEPT !.pc = "fetch"]
     IN  IF NeedsMakedirs(job.flatten, path)
         THEN IF MakedirsOk(DirName(path))
              THEN /\ dirs' = dirs \cup Prefixes(DirName(path))
                   /\ jobs' = [jobs EXCEPT ![j] = next]
              ELSE /\ dirs' = dirs
                   /\ jobs' = [jobs EXCEPT ![j] = Fail(job, "OSError")]
         ELSE /\ dirs' = dirs
              /\ jobs' = [jobs EXCEPT ![j] = next]
  /\ UNCHANGED <<archive, userInput, password, zipfile, mainpc, openErr, listed,
                 call, output_paths, collected, files>>

\* fs.open(url), zipfile.ZipFile(remote_file) and, in extract_file, getinfo
\* (lines 161-165 and 238-239)
Fetch(j) ==
  /\ jobs[j].pc = "fetch"
  /\ \E netOk \in BOOLEAN :
       LET job == jobs[j]
       IN  jobs' = [jobs EXCEPT ![j] =
             IF ~netOk THEN Fail(job, "TransportError")
             ELSE IF ~archive.cdOk THEN Fail(job, "BadZipFile")
             ELSE IF job.kind \in {"wrapper", "method"}
               THEN IF HasName(archive.entries, job.filename)
                    THEN [job EXCEPT !.pc = "open"]
                    ELSE Fail(job, "KeyError")
             ELSE IF job.kind = "standalone" THEN [job EXCEPT !.pc = "mkdir"]
             ELSE [job EXCEPT !.pc = "open"]]
  /\ UNCHANGED <<archive, userInput, password, zipfile, mainpc, openErr, listed,
                 call, output_paths, collected, dirs, files>>

\* "with zf.open(filename, pwd=...) as source, open(output_path, 'wb') as
\* target" (lines 168 and 258); with to_stdout, "return f.read()" (242-243)
OpenEntry(j) ==
  /\ jobs[j].pc = "open"
  /\ LET job == [jobs[j] EXCEPT !.attempts = @ + 1]
     IN  IF ~HasName(archive.entries, job.filename)
         THEN /\ jobs' = [jobs EXCEPT ![j] = Fail(job, "KeyError")]
              /\ files' = files
         ELSE LET e == getinfo(archive.entries, job.filename)
                  o == ZipOpen(e, JobPwd(job))
              IN  IF o # "ok"
                  THEN /\ jobs' = [jobs EXCEPT ![j] =
                             IF IsRuntimeError(o) /\ AsksPassword(o)
                             THEN [job EXCEPT !.pc = "handler", !.err = o]
                             ELSE Fail(job, o)]
                       /\ files' = files
                  ELSE IF job.kind = "stdout"
                  THEN /\ jobs' = [jobs EXCEPT ![j] =
                             [job EXCEPT !.pc = "done", !.result = ReadAll(e)]]
                       /\ files' = files
                  ELSE IF job.output_path \in dirs
                  THEN /\ jobs' = [jobs EXCEPT ![j] = Fail(job, "OSError")]
                       /\ files' = files
                  ELSE /\ jobs' = [jobs EXCEPT ![j] =
                             [job EXCEPT !.pc = "loop", !.opened = TRUE,
                                         !.handle = TRUE, !.bytes_read = 0]]
                       /\ files' = Truncate(job.output_path)
  /\ UNCHANGED <<archive, userInput, password, zipfile, mainpc, openErr, listed,
                 call, output_paths, collected, dirs>>

\* one turn of the copy loop (lines 171-181 and 261-271), and the return
\* after the break
Chunk(j) ==
  /\ jobs[j].pc = "loop"
  /\ \E netOk \in BOOLEAN :
       LET job   == jobs[j]
           e     == getinfo(archive.entries, job.filename)
           chunk == Read(e, job.bytes_read, chunk_size)
           n     == job.bytes_read + Len(chunk)
           p     == Progress(n, e.file_size)
       IN  IF ~netOk
           THEN /\ jobs' = [jobs EXCEPT ![j] = Fail(job, "TransportError")]
                /\ files' = files
           ELSE IF LoopBreak(chunk)
           THEN /\ jobs' = [jobs EXCEPT ![j] =
                      [job EXCEPT !.pc = "done", !.handle = FALSE]]
                /\ files' = files
           ELSE /\ files' = [files EXCEPT ![job.output_path] =
                      WriteAt(@, job.bytes_read, chunk)]
                /\ jobs' = [jobs EXCEPT ![j] =
                      IF p < 0
                      THEN Fail([job EXCEPT !.bytes_read = n], "ZeroDivisionError")
                      ELSE [job EXCEPT !.bytes_read = n, !.progress = p]]
  /\ UNCHANGED <<archive, userInput, password, zipfile, mainpc, openErr, listed,
                 call, output_paths, collected, dirs>>

\* "except RuntimeError" when the message asks for a password: get_password
\* and the recursive call (lines 184-188 and 276-279)
Handler(j) ==
  /\ jobs[j].pc = "handler"
  /\ LET job == jobs[j]
         g   == get_password(JobPwd(job), userInput)
     IN  /\ userInput' = g.inp
         /\ IF g.st # "ok"
            THEN /\ jobs' = [jobs EXCEPT ![j] = Fail(job, g.st)]
                 /\ password' = password
            ELSE /\ password' = IF job.kind \in {"wrapper", "method"}
                                THEN g.pw ELSE password
                 /\ jobs' = [jobs EXCEPT ![j] =
                      IF job.depth + 1 >= RecursionLimit
                      THEN Fail([job EXCEPT !.depth = @ + 1], "RecursionError")
                      ELSE IF job.kind \in {"wrapper", "method"}
                      THEN [job EXCEPT !.depth = @ + 1, !.pc = "mkdir",
                                       !.flatten = FALSE, !.err = "none"]
                      ELSE [job EXCEPT !.depth = @ + 1, !.pc = "fetch",
                                       !.pwd = g.pw, !.err = "none"]]
  /\ UNCHANGED <<archive, zipfile, mainpc, openErr, listed, call, output_paths,
                 collected, dirs, files>>

\* --------------------------------------------------- extract_files_parallel
Range(f) == {f[i] : i \in DOMAIN f}

WorkerCounts == {1, 2}

Filenames == Names \cup {MissingName}

NoCall == [filenames |-> <<>>, flatten |-> FALSE, max_workers |-> 1]

\* "[f for f in filenames if f not in self.zipfile.namelist()]"
MissingTest(f) == f \notin Range(namelist(zipfile.filelist))

\* variant: only the first requested name is validated
missing_files_first(filenames) ==
  SelectSeq(IF filenames = <<>> THEN <<>> ELSE <<Head(filenames)>>, MissingTest)

missing_files(filenames) == SelectSeq(filenames, MissingTest)

\* the validation of lines 196-198, then one submit per filename (line 222)
ParallelCall ==
  /\ mainpc = "ready"
  /\ \E filenames \in SeqsUpTo(Filenames, MaxBatch), flatten \in BOOLEAN,
        max_workers \in WorkerCounts :
       /\ call' = [filenames |-> filenames, flatten |-> flatten,
                   max_workers |-> max_workers]
       /\ IF missing_files(filenames) # <<>>
          THEN /\ mainpc' = "par_raised"
               /\ jobs' = jobs
          ELSE /\ mainpc' = "par_running"
               /\ jobs' = [i \in 1..Len(filenames) |->
                            NewJob("wrapper", filenames[i], FALSE, <<>>, flatten,
                                   None, "queued")]
  /\ UNCHANGED <<archive, userInput, password, zipfile, openErr, listed,
                 output_paths, collected, dirs, files>>

\* variant: future.result() is not guarded, a job's exception leaves the call
CollectRaises(j) ==
  /\ mainpc = "par_running"
  /\ j \notin collected
  /\ Finished(j)
  /\ collected' = collected \cup {j}
  /\ output_paths' = IF jobs[j].pc = "done"
                     THEN Append(output_paths, jobs[j].output_path)
                     ELSE output_paths
  /\ mainpc' = IF jobs[j].pc = "done" THEN mainpc ELSE "par_job_raised"
  /\ UNCHANGED <<archive, userInput, password, zipfile, openErr, listed,
                 call, jobs, dirs, files>>

\* variant: the path of a failed job is appended too
CollectAll(j) ==
  /\ mainpc = "par_running"
  /\ j \notin collected
  /\ Finished(j)
  /\ collected' = collected \cup {j}
  /\ output_paths' = Append(output_paths, jobs[j].output_path)
  /\ UNCHANGED <<archive, userInput, password, zipfile, mainpc, openErr, listed,
                 call, jobs, dirs, files>>

\* one turn of the as_completed loop (lines 223-229)
Collect(j) ==
  /\ mainpc = "par_running"
  /\ j \notin collected
  /\ Finished(j)
  /\ collected' = collected \cup {j}
  /\ output_paths' = IF jobs[j].pc = "done"
                     THEN Append(output_paths, jobs[j].output_path)
                     ELSE output_paths
  /\ UNCHANGED <<archive, userInput, password, zipfile, mainpc, openErr, listed,
                 call, jobs, dirs, files>>

\* "return output_paths" (line 231)
Return ==
  /\ mainpc = "par_running"
  /\ collected = DOMAIN jobs
  /\ mainpc' = "par_returned"
  /\ UNCHANGED <<archive, userInput, password, zipfile, openErr, listed, call,
                 jobs, output_paths, collected, dirs, files>>

\* ------------------------------------------------------------ direct calls
\* extractor.extract_file(filename, output_path, flatten)
ExtractFileCall ==
  /\ mainpc = "ready"
  /\ \E filename \in Filenames, has_path \in BOOLEAN, flatten \in BOOLEAN :
       jobs' = <<NewJob("method", filename, has_path,
                        IF has_path THEN Join(output_dir, filename) ELSE <<>>,
                        flatten, None, "mkdir")>>
  /\ mainpc' = "single"
  /\ UNCHANGED <<archive, userInput, password, zipfile, openErr, listed, call,
                 output_paths, collected, dirs, files>>

\* extract_file_from_remote_zip(url, filename, output_path, to_stdout,
\* password, flatten)
StandaloneCall ==
  /\ mainpc \in {"new", "ready"}
  /\ \E filename \in Filenames, has_path \in BOOLEAN, flatten \in BOOLEAN,
        to_stdout \in BOOLEAN, pwd \in {None, "good", "bad"} :
       jobs' = <<NewJob(IF to_stdout THEN "stdout" ELSE "standalone", filename,
                        has_path,
                        IF has_path THEN Join(output_dir, filename) ELSE <<>>,
                        flatten, pwd, "fetch")>>
  /\ mainpc' = "single"
  /\ UNCHANGED <<archive, userInput, password, zipfile, openErr, listed, call,
                 output_paths, collected, dirs, files>>

\* ------------------------------------------------------------ specifications
InitWith(archives, passwords, inputs) ==
  /\ archive \in archives
  /\ password \in passwords
  /\ userInput \in inputs
  /\ zipfile = NoZip
  /\ mainpc = "new"
  /\ openErr = "none"
  /\ listed = <<>>
  /\ call = NoCall
  /\ jobs = <<>>
  /\ output_paths = <<>>
  /\ collected = {}
  /\ dirs = {}
  /\ files = <<>>

DistinctNames(a) ==
  \A i, k \in 1..Len(a.entries) : i # k => a.entries[i].name # a.entries[k].name

\* Parallel extraction over unencrypted archives of distinct names, each
\* member two chunks long.
Init ==
  InitWith({a \in ArchivesOf(EntriesOf(Names, {0, 8, 99}, BOOLEAN, {FALSE}, {<<1, 2, 1>>}),
                             MaxEntries) : DistinctNames(a)},
           {None}, {<<>>})

Next ==
  \/ Construct
  \/ ParallelCall
  \/ \E j \in DOMAIN jobs : WrapperBegin(j)
  \/ \E j \in DOMAIN jobs : Mkdir(j)
  \/ \E j \in DOMAIN jobs : Fetch(j)
  \/ \E j \in DOMAIN jobs : OpenEntry(j)
  \/ \E j \in DOMAIN jobs : Chunk(j)
  \/ \E j \in DOMAIN jobs : Collect(j)
  \/ Return

Spec == Init /\ [][Next]_vars

\* Opening and listing: any archive of up to MaxEntries records, duplicates,
\* encrypted members and an interactive user included.
InitOpen ==
  InitWith(ArchivesOf(EntriesOf(Names, {0, 99}, BOOLEAN, BOOLEAN, {<<1>>}), MaxEntries),
           {None, "good", "bad"}, SeqsUpTo(PromptInputs, MaxPrompts))

NextOpen ==
  \/ Construct
  \/ ListFiles

SpecOpen == InitOpen /\ [][NextOpen]_vars

\* Extraction of one member, by extract_file or extract_file_from_remote_zip:
\* every content up to MaxLen blocks, or encrypted members and passwords.
InitExtract ==
  \/ InitWith({a \in ArchivesOf(EntriesOf({<<"a", "x">>}, {0, 8, 99}, BOOLEAN, {FALSE},
                                          SeqsUpTo(Blocks, MaxLen)), 1) :
                 Len(a.entries) = 1},
              {None}, {<<>>})
  \/ InitWith({a \in ArchivesOf(EntriesOf(Names, {0}, {TRUE}, BOOLEAN, {<<1>>}),
                                MaxEntries) : DistinctNames(a) /\ a.cdOk},
              {None, "good", "bad"}, SeqsUpTo(PromptInputs, MaxPrompts))

NextExtract ==
  \/ Construct
  \/ ExtractFileCall
  \/ StandaloneCall
  \/ \E j \in DOMAIN jobs : Mkdir(j)
  \/ \E j \in DOMAIN jobs : Fetch(j)
  \/ \E j \in DOMAIN jobs : OpenEntry(j)
  \/ \E j \in DOMAIN jobs : Chunk(j)
  \/ \E j \in DOMAIN jobs : Handler(j)

SpecExtract == InitExtract /\ [][NextExtract]_vars

\* Parallel extraction when members may be encrypted: the jobs read
\* self.password and may reach the password handler of extract_file.
InitShared ==
  InitWith({a \in ArchivesOf(EntriesOf(Names, {0}, {TRUE}, BOOLEAN, {<<1>>}),
                             MaxEntries) : DistinctNames(a) /\ a.cdOk},
           {None, "good", "bad"}, SeqsUpTo(PromptInputs, MaxPrompts))

NextShared ==
  \/ Construct
  \/ ParallelCall
  \/ \E j \in DOMAIN jobs : WrapperBegin(j)
  \/ \E j \in DOMAIN jobs : Mkdir(j)
  \/ \E j \in DOMAIN jobs : Fetch(j)
  \/ \E j \in DOMAIN jobs : OpenEntry(j)
  \/ \E j \in DOMAIN jobs : Chunk(j)
  \/ \E j \in DOMAIN jobs : Handler(j)
  \/ \E j \in DOMAIN jobs : Collect(j)
  \/ Return

SpecShared == InitShared /\ [][NextShared]_vars

\* ================================================================= claims
EntryOf(job) == getinfo(archive.entries, job.filename)

InArchive(name) == HasName(archive.entries, name)

\* C1: a call of extract_files_parallel whose list holds a name absent from
\* the archive raises before any job is submitted: no job exists, no directory
\* was created, no file was opened, whatever the other names of the list.
C1_RejectedBeforeAnyJob ==
  (/\ mainpc # "new" /\ mainpc # "ready" /\ mainpc # "failed"
   /\ \E i \in DOMAIN call.filenames : ~InArchive(call.filenames[i]))
  => (/\ mainpc = "par_raised"
      /\ jobs = <<>>
      /\ dirs = {}
      /\ DOMAIN files = {}
      /\ output_paths = <<>>)

\* a rejected batch that also names a member of the archive
C1_Witness ==
  /\ mainpc = "par_raised"
  /\ \E i \in DOMAIN call.filenames : InArchive(call.filenames[i])
  /\ \E i \in DOMAIN call.filenames : ~InArchive(call.filenames[i])

\* what a job can end with on its own account
OwnOutcomes(job) ==
  {"TransportError"}
    \cup (IF ~EntryOf(job).hdrOk THEN {"BadZipFile"} ELSE {})
    \cup (IF EntryOf(job).hdrOk /\ EntryOf(job).method \notin {0, 8}
          THEN {"NotImplementedError"} ELSE {})

\* C2: a failed job is isolated. Once the batch is accepted the call never
\* raises; it returns only when every job was started and ran to its end; and
\* every job ends with its own outcome: a job fails only by its own transport
\* error or by the defect of its own entry, whatever its siblings did.
C2_FailureIsolated ==
  /\ jobs # <<>> => mainpc \in {"par_running", "par_returned"}
  /\ mainpc = "par_returned" =>
       \A j \in DOMAIN jobs : Finished(j) /\ jobs[j].has_path
  /\ \A j \in DOMAIN jobs :
       /\ jobs[j].pc = "failed" => jobs[j].err \in OwnOutcomes(jobs[j])
       /\ jobs[j].pc = "done" =>
            EntryOf(jobs[j]).hdrOk /\ EntryOf(jobs[j]).method \in {0, 8}

\* the call returned, one job failed and a job submitted after it succeeded
C2_Witness ==
  /\ mainpc = "par_returned"
  /\ \E j, k \in DOMAIN jobs :
       j < k /\ jobs[j].pc = "failed" /\ jobs[k].pc = "done"

Count(seq, x) == Cardinality({i \in DOMAIN seq : seq[i] = x})

DoneAt(path) ==
  Cardinality({j \in DOMAIN jobs : jobs[j].pc = "done" /\ jobs[j].output_path = path})

\* C3: the returned list holds one element per successful job, its
\* destination path, and none for a failed job, in any completion order; its
\* length equals the length of the input list iff every job succeeded.
C3_ResultIsSuccesses ==
  /\ mainpc \in {"par_running", "par_returned"} =>
       /\ Len(jobs) = Len(call.filenames)
       /\ Len(output_paths) =
            Cardinality({j \in collected : jobs[j].pc = "done"})
  /\ mainpc = "par_returned" =>
       /\ \A j \in DOMAIN jobs :
            Count(output_paths, jobs[j].output_path) = DoneAt(jobs[j].output_path)
       /\ \A i \in DOMAIN output_paths : DoneAt(output_paths[i]) > 0
       /\ (Len(output_paths) = Len(call.filenames))
            <=> (\A j \in DOMAIN jobs : jobs[j].pc = "done")

\* a partial result: two names requested, one path returned
C3_Witness ==
  /\ mainpc = "par_returned"
  /\ Len(call.filenames) = 2
  /\ Len(output_paths) = 1

\* C10: in one batch no two jobs open the same destination path.
C10_OwnDestination ==
  \A j, k \in DOMAIN jobs :
    (j # k /\ jobs[j].opened /\ jobs[k].opened)
      => jobs[j].output_path # jobs[k].output_path

WellFormed(a) ==
  /\ a.cdOk
  /\ \A i \in DOMAIN a.entries : a.entries[i].hdrOk /\ ~a.entries[i].enc

\* C4: opening a well-formed archive of any number of entries, zero included,
\* succeeds (transport failures aside), and list_files then returns names whose
\* set is the set of names of the central directory.
C4_OpenAnyArchive ==
  (mainpc # "new" /\ WellFormed(archive) /\ openErr # "TransportError")
    => (/\ mainpc = "ready"
        /\ Range(list_files) = {archive.entries[i].name : i \in DOMAIN archive.entries})

\* C5: a bad local header, of whichever entry, does not make opening fail.
C5_LocalHeaderNotFatal ==
  (/\ mainpc # "new"
   /\ archive.cdOk
   /\ openErr # "TransportError"
   /\ \A i \in DOMAIN archive.entries : ~archive.entries[i].enc
   /\ \E i \in DOMAIN archive.entries : ~archive.entries[i].hdrOk)
    => mainpc = "ready"

\* C9: the listing holds each name once, also when the central directory
\* holds two records of that name.
C9_ListedOnce ==
  mainpc = "ready" =>
    \A i, k \in DOMAIN list_files : list_files[i] = list_files[k] => i = k

Rejects(job) ==
  /\ InArchive(job.filename)
  /\ EntryOf(job).hdrOk
  /\ EntryOf(job).enc
  /\ JobPwd(job) # None
  /\ JobPwd(job) # ArchivePassword

\* C6: a decode with a non-empty credential that the entry rejects is
\* attempted once.
C6_SingleAttempt ==
  \A j \in DOMAIN jobs : Rejects(jobs[j]) => jobs[j].attempts <= 1

ToFile(job) == job.kind \in {"method", "standalone"}

\* C7: whatever the length of the entry, the bytes the chunked loop has
\* written are the first bytes_read bytes of the original content, and when
\* the call ends well the file is, byte for byte, what the single-shot read
\* returns, and both are the original content.
C7_ChunkedEqualsSingleShot ==
  \A j \in DOMAIN jobs :
    /\ (ToFile(jobs[j]) /\ jobs[j].pc = "loop") =>
         files[jobs[j].output_path] = SubSeq(EntryOf(jobs[j]).plain, 1, jobs[j].bytes_read)
    /\ (ToFile(jobs[j]) /\ jobs[j].pc = "done") =>
         /\ files[jobs[j].output_path] = ReadAll(EntryOf(jobs[j]))
         /\ files[jobs[j].output_path] = EntryOf(jobs[j]).plain
    /\ (jobs[j].kind = "stdout" /\ jobs[j].pc = "done") =>
         jobs[j].result = EntryOf(jobs[j]).plain

\* a deflated entry longer than a chunk, and no multiple of it, copied to the end
C7_Witness ==
  \E j \in DOMAIN jobs :
    /\ ToFile(jobs[j])
    /\ jobs[j].pc = "done"
    /\ EntryOf(jobs[j]).method = 8
    /\ EntryOf(jobs[j]).file_size > chunk_size
    /\ EntryOf(jobs[j]).file_size % chunk_size # 0

ZeroStored(job) ==
  /\ archive.cdOk
  /\ InArchive(job.filename)
  /\ EntryOf(job).method = 0
  /\ EntryOf(job).file_size = 0
  /\ EntryOf(job).hdrOk
  /\ ~EntryOf(job).enc

\* C8: extracting a zero-length stored entry ends without error (a transport
\* failure aside), in particular without a division by zero in the progress
\* computation, and leaves an empty output.
C8_ZeroLengthEntry ==
  \A j \in DOMAIN jobs :
    ZeroStored(jobs[j]) =>
      /\ jobs[j].err \in {"none", "TransportError"}
      /\ (ToFile(jobs[j]) /\ jobs[j].pc = "done") =>
           /\ jobs[j].output_path \in DOMAIN files
           /\ files[jobs[j].output_path] = <<>>
      /\ (jobs[j].kind = "stdout" /\ jobs[j].pc = "done") => jobs[j].result = <<>>

\* extract_file has extracted a zero-length stored entry
C8_Witness ==
  \E j \in DOMAIN jobs :
    /\ ZeroStored(jobs[j])
    /\ jobs[j].kind = "method"
    /\ jobs[j].pc = "done"
    /\ jobs[j].output_path \in DOMAIN files

\* C11: while the jobs of a batch run, no step changes the data more than one
\* job reads: the entry table, the archive behind the URL and the credential
\* self.password stay as they were when the batch was submitted.
C11_JobsLeaveSharedUnchanged ==
  [][mainpc = "par_running" =>
       /\ zipfile' = zipfile
       /\ archive' = archive
       /\ password' = password]_vars

====
